---------------------------- MODULE Spec2Model ----------------------------
(***************************************************************************)
(* Conversation buffering and batched upload of the MemOS integrator       *)
(* plugin (src/main.py): the sqlite message_cache table, save_memories,    *)
(* the part of inject_memories that records the original prompt, and the   *)
(* background upload tasks.                                                 *)
(*                                                                         *)
(* The event loop runs one coroutine at a time.  save_memories suspends at *)
(* the await of line 466 (`awaiting` holds the suspended invocations) and  *)
(* has no await from there to line 578, so while its program counter `pc`  *)
(* is not "idle" the only other thing that can happen is the death of the  *)
(* process (Restart).  Every store statement is a step of its own so that  *)
(* a crash can fall between any two of them.  An upload task is created,   *)
(* starts its add_message call, has its POST received by the gateway and   *)
(* ends, each in a step of its own.                                        *)
(*                                                                         *)
(* Texts are numbers: 0 is the empty/missing text, n > 0 is the text of    *)
(* request n.  Every turn carries `tid`, an auxiliary stamp giving the     *)
(* order in which turns were created; the code never reads it.  `handled`, *)
(* `buffer`, `interrupted` and `owner` are history variables used by the   *)
(* properties only.                                                        *)
(*                                                                         *)
(* The environment disturbs a run by failures (a store statement, the      *)
(* config file, the gateway call), by restarts of the process and by       *)
(* configuration changes; `allowed` says which of these a specification    *)
(* admits and MaxDisturbances how many of them one behaviour may contain.  *)
(*                                                                         *)
(* SpecLive adds the fairness of the event loop and of the bounded gateway *)
(* call to one run of the process.  SpecConfig applies                     *)
(* get_effective_config and the choice of the user id to every saved bot   *)
(* and session configuration.                                              *)
(***************************************************************************)
EXTENDS Integers, Sequences, FiniteSets, TLC

(* ------------------------------ bounds -------------------------------- *)
MaxReq == 3
MaxInflight == 2
MaxThreshold == 2
MaxDisturbances == 1

Sessions == {"s1", "s2"}
Thresholds == 1..MaxThreshold
Absent == -1
Empty == 0

VARIABLES
    memory_manager,    \* TRUE when self.memory_manager is not None
    upload_interval,   \* self.upload_interval
    original_prompts,  \* self.original_prompts: session -> text, Absent = no key
    disk,              \* committed rows of message_cache
    view,              \* rows as seen through self._db_conn (uncommitted included)
    pc,                \* position of the running save_memories, "idle" when none
    h,                 \* local variables of the running / last save_memories
    tasks,             \* every task made by asyncio.create_task, in creation order
    calls,             \* indexes of tasks, in the order their add_message call started
    inflight,          \* requests between on_llm_request and on_llm_response
    awaiting,          \* save_memories invocations suspended at the await of line 466
    received,          \* indexes of tasks, in the order their POST reached the gateway
    plugin_config,     \* self.config["upload_interval"], the configured threshold
    owner,             \* turn stamp -> user id in force when the turn's round was accepted
    bot_config,        \* the configuration of the bot in the config file
    effective_config,  \* the last result of get_effective_config and the session asked
    nreq,              \* number of requests so far
    ntid,              \* next turn stamp
    allowed,           \* kinds of disturbance the environment may cause
    faults,            \* number of store / gateway / config-file failures so far
    restarts,          \* number of process restarts so far
    handled,           \* conversation -> number of complete rounds save_memories accepted
    buffer,            \* conversation -> turns whose append committed since the last committed delete
    config,            \* session -> its configuration in the config file
    changes,           \* number of configuration changes so far
    interrupted        \* stamps of turns read by a flush that died before its delete committed

vars == <<memory_manager, upload_interval, original_prompts, disk, view, pc, h,
          tasks, calls, inflight, nreq, ntid, faults, restarts, handled, buffer,
          config, changes, interrupted, allowed, awaiting, received, plugin_config, owner, bot_config, effective_config>>

(* ----------------------- external collaborators ----------------------- *)
\* conversation_manager.get_curr_conversation_id: one current conversation per session
ConvOf(s) == IF s = "s1" THEN "c1" ELSE "c2"
Convs == {ConvOf(s) : s \in Sessions}

(* --------------------------- message_cache ---------------------------- *)
ConvRows(rows, c) == {r \in rows : r.conversation_id = c}

\* SELECT MAX(message_id) ... ; next_id = max_id + 1 if max_id is not None else 0
NextIdSkips(rows, c) ==
    IF ConvRows(rows, c) = {} THEN 0
    ELSE 2 + CHOOSE m \in {r.message_id : r \in ConvRows(rows, c)} :
                 \A r \in ConvRows(rows, c) : r.message_id <= m
NextId(rows, c) ==
    IF ConvRows(rows, c) = {} THEN 0
    ELSE 1 + CHOOSE m \in {r.message_id : r \in ConvRows(rows, c)} :
                 \A r \in ConvRows(rows, c) : r.message_id <= m

\* PRIMARY KEY (conversation_id, message_id)
KeyTaken(rows, c, id) == \E r \in rows : r.conversation_id = c /\ r.message_id = id

\* INSERT INTO message_cache ... VALUES (conversation_id, next_id, role, content)
InsertRow(rows, c, role, content, tid) ==
    rows \cup {[conversation_id |-> c, message_id |-> NextId(rows, c),
                role |-> role, content |-> content, tid |-> tid]}

\* SELECT COUNT(*) FROM message_cache WHERE conversation_id = ?
CountRows(rows, c) == Cardinality(ConvRows(rows, c))

Msg(r) == [role |-> r.role, content |-> r.content, tid |-> r.tid]

RECURSIVE OrderByMessageIdDesc(_)
OrderByMessageIdDesc(S) ==
    IF S = {} THEN <<>>
    ELSE LET m == CHOOSE r \in S : \A q \in S : r.message_id >= q.message_id
         IN  <<Msg(m)>> \o OrderByMessageIdDesc(S \ {m})

RECURSIVE OrderByMessageId(_)
OrderByMessageId(S) ==
    IF S = {} THEN <<>>
    ELSE LET m == CHOOSE r \in S : \A q \in S : r.message_id <= q.message_id
         IN  <<Msg(m)>> \o OrderByMessageId(S \ {m})

\* SELECT role, content FROM message_cache WHERE conversation_id = ? ORDER BY message_id
SelectEveryMessage(rows, c) == OrderByMessageId(rows)
SelectMessages(rows, c) == OrderByMessageId(ConvRows(rows, c))

\* DELETE FROM message_cache WHERE conversation_id = ?
DeleteEveryRow(rows, c) == {}
DeleteRows(rows, c) == rows \ ConvRows(rows, c)

\* self._db_conn.rollback(): the connection sees the committed rows again
RollbackKeeps(committed, seen) == seen
Rollback(committed, seen) == committed

\* sqlite3.connect on an existing file: only committed rows are there
ReopenKeepsUncommitted(committed, seen) == seen
Reopen(committed, seen) == committed

(* --------------------------- configuration ---------------------------- *)
\* BotConfig(): the field defaults of data_models.py
DefaultConfig == [custom_user_id |-> "", memory_injection_enabled |-> TRUE,
                  new_session_upload_enabled |-> TRUE, api_key_selection |-> "default"]

\* ConfigManager.get_effective_config with a session id
GetEffectiveConfigBotFirst(bot, session) ==
    [custom_user_id |-> IF bot.custom_user_id # "" THEN bot.custom_user_id
                        ELSE session.custom_user_id,
     memory_injection_enabled |-> session.memory_injection_enabled,
     new_session_upload_enabled |-> session.new_session_upload_enabled,
     api_key_selection |-> session.api_key_selection]
GetEffectiveConfig(bot, session) ==
    [custom_user_id |-> IF session.custom_user_id # "" THEN session.custom_user_id
                        ELSE bot.custom_user_id,
     memory_injection_enabled |-> session.memory_injection_enabled,
     new_session_upload_enabled |-> session.new_session_upload_enabled,
     api_key_selection |-> session.api_key_selection]

\* lines 360-372 / 447-459: the default configuration when the file cannot be read
EffectiveConfig(s, ok) ==
    IF ok THEN GetEffectiveConfig(bot_config, config[s]) ELSE DefaultConfig

(* ------------------------------ helpers ------------------------------- *)
Tids(msgs) == {msgs[i].tid : i \in 1..Len(msgs)}

\* failures, restarts and configuration changes share one budget
Disturbances == faults + restarts + changes
May(kind) == kind \in allowed /\ Disturbances < MaxDisturbances

\* a store or config-file operation may fail while the budget lasts
Outcomes == IF May("fault") THEN {TRUE, FALSE} ELSE {TRUE}
Charge(ok) == faults' = IF ok THEN faults ELSE faults + 1

NoLocals == [event |-> 0, conversation_id |-> "c1", user_id |-> "",
             user_message |-> Absent, ai_response |-> Absent,
             message_count |-> 0, messages_to_upload |-> <<>>, tid |-> 0]

\* the locals are dead once save_memories has returned; the event, its two
\* texts and the count it read stay readable as the last round handled
Returned(loc) == [NoLocals EXCEPT !.event = loc.event,
                                 !.user_message = loc.user_message,
                                 !.ai_response = loc.ai_response,
                                 !.message_count = loc.message_count]
Locals(p, loc) == IF p = "idle" THEN Returned(loc) ELSE loc

\* user_id = custom_user_id if custom_user_id else unified_msg_origin
UserId(custom, s) == IF custom # "" THEN custom ELSE s

\* `not text`: None or the empty string
IsMissingNever(text) == FALSE
IsMissing(text) == text \in {Absent, Empty}

\* line 504: upload_interval == 1 uploads at once and bypasses the table
DirectUploadNever(interval) == FALSE
DirectUpload(interval) == interval = 1

\* lines 482-492: the stored prompt of the session, else event.message_str
ResolveUserMessage(stored, message_str) ==
    IF ~IsMissing(stored) THEN stored ELSE message_str

\* asyncio.create_task: the coroutine is scheduled, not run
NewTaskAwaited(msgs, user_id, conv_id) ==
    [msgs |-> msgs, user_id |-> user_id, conv_id |-> conv_id, st |-> "calling"]
NewTask(msgs, user_id, conv_id) ==
    [msgs |-> msgs, user_id |-> user_id, conv_id |-> conv_id, st |-> "scheduled"]

\* order of the statements of the general path, lines 529-570
FlowNextSubmitFirst(p) ==
    CASE p = "save_user"        -> "commit_user"
      [] p = "commit_user"      -> "save_assistant"
      [] p = "save_assistant"   -> "commit_assistant"
      [] p = "commit_assistant" -> "count"
      [] p = "count"            -> "select"
      [] p = "select"           -> "submit"
      [] p = "submit"           -> "clear"
      [] p = "clear"            -> "clear_commit"
      [] p = "clear_commit"     -> "idle"
FlowNext(p) ==
    CASE p = "save_user"        -> "commit_user"
      [] p = "commit_user"      -> "save_assistant"
      [] p = "save_assistant"   -> "commit_assistant"
      [] p = "commit_assistant" -> "count"
      [] p = "count"            -> "select"
      [] p = "select"           -> "clear"
      [] p = "clear"            -> "clear_commit"
      [] p = "clear_commit"     -> "submit"
      [] p = "submit"           -> "idle"

\* lines 580-581: `except Exception` logs and save_memories returns normally;
\* "raised" is where an exception would leave the handler towards the host
OuterExceptReraises == "raised"
OuterExcept == "idle"

\* the statement after _save_message_to_db / _clear_conversation_cache returned
AfterCall(p) ==
    CASE p \in {"save_user", "commit_user"}           -> FlowNext("commit_user")
      [] p \in {"save_assistant", "commit_assistant"} -> FlowNext("commit_assistant")
      [] p \in {"clear", "clear_commit"}              -> FlowNext("clear_commit")

\* the event loop runs another coroutine only when the running one has
\* returned or is suspended at an await; save_memories has none after line 466
YieldedAnywhere(p) == TRUE
Yielded(p) == p = "idle"

(* ------------------------------- Init --------------------------------- *)
InitPlugin ==
    /\ memory_manager \in BOOLEAN
    /\ upload_interval \in Thresholds
    /\ original_prompts = [s \in Sessions |-> Absent]
    /\ disk = {}
    /\ view = {}
    /\ pc = "idle"
    /\ h = NoLocals
    /\ tasks = <<>>
    /\ calls = <<>>
    /\ inflight = {}
    /\ awaiting = {}
    /\ received = <<>>
    /\ plugin_config = upload_interval
    /\ owner = <<>>
    /\ effective_config = [session |-> "", config |-> DefaultConfig]
    /\ nreq = 0
    /\ ntid = 1
    /\ handled = [c \in Convs |-> 0]
    /\ buffer = [c \in Convs |-> <<>>]
    /\ changes = 0
    /\ faults = 0
    /\ restarts = 0
    /\ interrupted = {}

\* a config file in which the bot and every session have the defaults
InitCommon ==
    /\ InitPlugin
    /\ bot_config = DefaultConfig
    /\ config = [s \in Sessions |-> DefaultConfig]

Init == InitCommon /\ allowed = {"fault", "restart", "config"}

(* ------------------------------ actions ------------------------------- *)
\* on_llm_request hook, lines 349-390 (the part that touches plugin state)
InjectMemories(s, prompt, message_str) ==
    /\ Yielded(pc)
    /\ nreq < MaxReq
    /\ Cardinality(inflight) + Cardinality(awaiting) < MaxInflight
    /\ nreq' = nreq + 1
    /\ inflight' = inflight \cup
           {[id |-> nreq + 1, session |-> s, message_str |-> message_str]}
    /\ \E ok \in (IF memory_manager THEN Outcomes ELSE {TRUE}) :
         /\ Charge(ok)
         /\ original_prompts' =
               IF memory_manager /\ EffectiveConfig(s, ok).memory_injection_enabled
               THEN [original_prompts EXCEPT ![s] = prompt]
               ELSE original_prompts
    /\ UNCHANGED <<memory_manager, upload_interval, disk, view, pc, h, tasks, calls,
                   ntid, restarts, handled, buffer, interrupted,
                   config, changes, allowed, awaiting, received, plugin_config, owner, bot_config, effective_config>>

\* lines 438-439 and 462-464: save_memories returns at once without a memory
\* manager or when the session's upload switch is off
UploadSkippedNever(mm, eff) == FALSE
UploadSkipped(mm, eff) == ~mm \/ ~eff.new_session_upload_enabled

\* on_llm_response hook, lines 437-466: the switches, the user id, then the
\* await of _get_conversation_id
SaveMemoriesBegin(r, ok) ==
    LET s   == r.session
        eff == EffectiveConfig(s, ok)
        uid == UserId(eff.custom_user_id, s)
    IN
    /\ Yielded(pc)
    /\ r \in inflight
    /\ inflight' = inflight \ {r}
    /\ faults' = IF memory_manager /\ ~ok THEN faults + 1 ELSE faults
    /\ IF UploadSkipped(memory_manager, eff)
       THEN /\ h' = [NoLocals EXCEPT !.event = r.id]
            /\ awaiting' = awaiting
       ELSE /\ h' = h
            /\ awaiting' = awaiting \cup
                   {[id |-> r.id, session |-> s, message_str |-> r.message_str,
                     user_id |-> uid]}
    /\ UNCHANGED <<memory_manager, upload_interval, original_prompts, disk, view, pc,
                   tasks, calls, nreq, ntid, restarts, handled, buffer, interrupted,
                   config, changes, allowed, received, plugin_config, owner, bot_config, effective_config>>

\* on_llm_response hook resumed, lines 466-526 up to the first store statement
SaveMemories(r, completion) ==
    LET s    == r.session
        conv == ConvOf(s)
        um   == ResolveUserMessage(original_prompts[s], r.message_str)
        uid  == r.user_id
        loc  == [NoLocals EXCEPT !.event = r.id, !.conversation_id = conv,
                                 !.user_id = uid, !.user_message = um,
                                 !.tid = ntid]
    IN
    /\ Yielded(pc)
    /\ r \in awaiting
    /\ awaiting' = awaiting \ {r}
    /\ original_prompts' = [original_prompts EXCEPT ![s] = Absent]
    /\ UNCHANGED <<memory_manager, upload_interval, disk, view, calls, inflight, nreq,
                   faults, restarts, buffer, interrupted, config, changes, allowed,
                   received, plugin_config, bot_config, effective_config>>
    /\ IF IsMissing(um)
       THEN /\ h' = Returned(loc)
            /\ UNCHANGED <<pc, tasks, ntid, handled, owner, bot_config, effective_config>>
       ELSE IF IsMissing(completion)
       THEN /\ h' = Returned([loc EXCEPT !.ai_response = completion])
            /\ UNCHANGED <<pc, tasks, ntid, handled, owner, bot_config, effective_config>>
       ELSE /\ h' = Locals(IF DirectUpload(upload_interval) THEN "idle"
                           ELSE "save_user",
                           [loc EXCEPT !.ai_response = completion])
            /\ handled' = [handled EXCEPT ![conv] = @ + 1]
            /\ ntid' = ntid + 2
            /\ owner' = owner \o <<uid, uid>>
            /\ IF DirectUpload(upload_interval)
               THEN /\ tasks' = Append(tasks, NewTask(
                           <<[role |-> "user", content |-> um, tid |-> ntid],
                             [role |-> "assistant", content |-> completion,
                              tid |-> ntid + 1]>>, uid, conv))
                    /\ pc' = "idle"
               ELSE /\ pc' = "save_user"
                    /\ tasks' = tasks

\* the turn _save_message_to_db is writing at position p
TurnAt(p) ==
    IF p \in {"save_user", "commit_user"}
    THEN [role |-> "user", content |-> h.user_message, tid |-> h.tid]
    ELSE [role |-> "assistant", content |-> h.ai_response, tid |-> h.tid + 1]

\* _save_message_to_db, lines 268-280 (SELECT MAX, INSERT) and 284-286 (failure)
SaveMessageExecute ==
    /\ pc \in {"save_user", "save_assistant"}
    /\ \E ok \in Outcomes :
         LET c == h.conversation_id
             t == TurnAt(pc)
         IN  /\ Charge(ok)
             /\ IF ok /\ ~KeyTaken(view, c, NextId(view, c))
                THEN /\ view' = InsertRow(view, c, t.role, t.content, t.tid)
                     /\ pc' = FlowNext(pc)
                ELSE /\ view' = Rollback(disk, view)
                     /\ pc' = AfterCall(pc)
    /\ UNCHANGED <<memory_manager, upload_interval, original_prompts, disk, h, tasks,
                   calls, inflight, nreq, ntid, restarts, handled, buffer, interrupted,
                   config, changes, allowed, awaiting, received, plugin_config, owner, bot_config, effective_config>>

\* _save_message_to_db, line 282 (commit) and 284-286 (failure)
SaveMessageCommit ==
    /\ pc \in {"commit_user", "commit_assistant"}
    /\ \E ok \in Outcomes :
         /\ Charge(ok)
         /\ IF ok
            THEN /\ disk' = view
                 /\ view' = view
                 /\ buffer' = [buffer EXCEPT ![h.conversation_id] = Append(@, TurnAt(pc))]
                 /\ pc' = FlowNext(pc)
            ELSE /\ view' = Rollback(disk, view)
                 /\ disk' = disk
                 /\ buffer' = buffer
                 /\ pc' = AfterCall(pc)
    /\ UNCHANGED <<memory_manager, upload_interval, original_prompts, h, tasks, calls,
                   inflight, nreq, ntid, restarts, handled, interrupted,
                   config, changes, allowed, awaiting, received, plugin_config, owner, bot_config, effective_config>>

\* current_rounds = message_count // 2 ; current_rounds >= self.upload_interval
ReachedThresholdStrict(message_count, interval) == (message_count \div 2) > interval
ReachedThreshold(message_count, interval) == (message_count \div 2) >= interval

\* _get_conversation_message_count, lines 299-309: the count, 0 when it fails
GetConversationMessageCountAnyway(rows, c, ok) == CountRows(rows, c)
GetConversationMessageCount(rows, c, ok) == IF ok THEN CountRows(rows, c) ELSE 0

\* _get_conversation_message_count (lines 299-309) and the decision of lines 533-551
CountMessages ==
    /\ pc = "count"
    /\ \E ok \in Outcomes :
         LET n == GetConversationMessageCount(view, h.conversation_id, ok)
         IN  /\ Charge(ok)
             /\ pc' = IF ReachedThreshold(n, upload_interval)
                      THEN FlowNext(pc) ELSE "idle"
             /\ h' = Locals(pc', [h EXCEPT !.message_count = n])
    /\ UNCHANGED <<memory_manager, upload_interval, original_prompts, disk, view, tasks,
                   calls, inflight, nreq, ntid, restarts, handled, buffer, interrupted,
                   config, changes, allowed, awaiting, received, plugin_config, owner, bot_config, effective_config>>

\* lines 541-543; a failing SELECT raises into the handler of line 580
SelectBatch ==
    /\ pc = "select"
    /\ \E ok \in Outcomes :
         /\ Charge(ok)
         /\ IF ok
            THEN /\ h' = [h EXCEPT !.messages_to_upload =
                                       SelectMessages(view, h.conversation_id)]
                 /\ pc' = FlowNext(pc)
            ELSE /\ h' = Returned(h)
                 /\ pc' = OuterExcept
    /\ UNCHANGED <<memory_manager, upload_interval, original_prompts, disk, view, tasks,
                   calls, inflight, nreq, ntid, restarts, handled, buffer, interrupted,
                   config, changes, allowed, awaiting, received, plugin_config, owner, bot_config, effective_config>>

\* _clear_conversation_cache, line 293 (DELETE) and 295-297 (failure)
ClearExecute ==
    /\ pc = "clear"
    /\ \E ok \in Outcomes :
         /\ Charge(ok)
         /\ IF ok
            THEN /\ view' = DeleteRows(view, h.conversation_id)
                 /\ pc' = FlowNext(pc)
            ELSE /\ view' = Rollback(disk, view)
                 /\ pc' = AfterCall(pc)
    /\ h' = Locals(pc', h)
    /\ UNCHANGED <<memory_manager, upload_interval, original_prompts, disk, tasks,
                   calls, inflight, nreq, ntid, restarts, handled, buffer, interrupted,
                   config, changes, allowed, awaiting, received, plugin_config, owner, bot_config, effective_config>>

\* _clear_conversation_cache, line 294 (commit) and 295-297 (failure)
ClearCommit ==
    /\ pc = "clear_commit"
    /\ \E ok \in Outcomes :
         /\ Charge(ok)
         /\ IF ok
            THEN /\ disk' = view
                 /\ view' = view
                 /\ buffer' = [buffer EXCEPT ![h.conversation_id] = <<>>]
                 /\ pc' = FlowNext(pc)
            ELSE /\ view' = Rollback(disk, view)
                 /\ disk' = disk
                 /\ buffer' = buffer
                 /\ pc' = AfterCall(pc)
    /\ h' = Locals(pc', h)
    /\ UNCHANGED <<memory_manager, upload_interval, original_prompts, tasks, calls,
                   inflight, nreq, ntid, restarts, handled, interrupted,
                   config, changes, allowed, awaiting, received, plugin_config, owner, bot_config, effective_config>>

\* asyncio.create_task(_save_memory_task(...)) and add_done_callback, lines 570-578
SubmitTask ==
    /\ pc = "submit"
    /\ tasks' = Append(tasks, NewTask(h.messages_to_upload, h.user_id, h.conversation_id))
    /\ pc' = FlowNext(pc)
    /\ h' = Locals(pc', h)
    /\ UNCHANGED <<memory_manager, upload_interval, original_prompts, disk, view,
                   calls, inflight, nreq, ntid, faults, restarts, handled, buffer,
                   interrupted,
                   config, changes, allowed, awaiting, received, plugin_config, owner, bot_config, effective_config>>

Unfinished(st) == st \in {"scheduled", "calling"}

\* the event loop runs created tasks first-in first-out
RunnableAlone(i) ==
    /\ i \in 1..Len(tasks)
    /\ tasks[i].st = "scheduled"
    /\ \A j \in 1..Len(tasks) : j # i => ~Unfinished(tasks[j].st)
Runnable(i) ==
    /\ i \in 1..Len(tasks)
    /\ tasks[i].st = "scheduled"
    /\ \A j \in 1..(i - 1) : tasks[j].st # "scheduled"

\* _save_memory_task / _save_memory_task_direct up to `await add_message`
TaskStart(i) ==
    /\ Yielded(pc)
    /\ Runnable(i)
    /\ tasks' = [tasks EXCEPT ![i].st = "calling"]
    /\ calls' = Append(calls, i)
    /\ UNCHANGED <<memory_manager, upload_interval, original_prompts, disk, view, pc, h,
                   inflight, nreq, ntid, faults, restarts, handled, buffer, interrupted,
                   config, changes, allowed, awaiting, received, plugin_config, owner, bot_config, effective_config>>

\* memory_manager.py lines 46-47: the POST of a running add_message arrives
\* at the gateway; every call has a ClientSession and a connection of its own
GatewayReceive(i) ==
    /\ Yielded(pc)
    /\ i \in 1..Len(tasks)
    /\ tasks[i].st = "calling"
    /\ \A k \in 1..Len(received) : received[k] # i
    /\ received' = Append(received, i)
    /\ UNCHANGED <<memory_manager, upload_interval, original_prompts, disk, view, pc, h,
                   tasks, calls, inflight, nreq, ntid, faults, restarts, handled, buffer,
                   interrupted, config, changes, allowed, awaiting, plugin_config, owner, bot_config, effective_config>>

\* a success needs the POST to have arrived; the other outcomes are failures
GatewayResults(arrived) ==
    (IF arrived THEN {"success"} ELSE {}) \cup
    (IF May("fault") THEN {"error", "raise"} ELSE {})

\* what the task does with the outcome of add_message, lines 518-523 / 562-567
AfterResultRetry(result) ==
    CASE result = "success" -> "ok"
      [] result = "error"   -> "scheduled"
      [] result = "raise"   -> "scheduled"
AfterResultUnhandled(result) ==
    CASE result = "success" -> "ok"
      [] result = "error"   -> "warned"
      [] result = "raise"   -> "unhandled"
AfterResult(result) ==
    CASE result = "success" -> "ok"
      [] result = "error"   -> "warned"
      [] result = "raise"   -> "errored"

\* add_message returns or raises; the task logs and ends
TaskFinish(i) ==
    /\ Yielded(pc)
    /\ i \in 1..Len(tasks)
    /\ tasks[i].st = "calling"
    /\ \E result \in GatewayResults(\E k \in 1..Len(received) : received[k] = i) :
         /\ faults' = IF result = "success" THEN faults ELSE faults + 1
         /\ tasks' = [tasks EXCEPT ![i].st = AfterResult(result)]
    /\ UNCHANGED <<memory_manager, upload_interval, original_prompts, disk, view, pc, h,
                   calls, inflight, nreq, ntid, restarts, handled, buffer, interrupted,
                   config, changes, allowed, awaiting, received, plugin_config, owner, bot_config, effective_config>>


\* the process dies at any point and the plugin is constructed again, lines 27-63
Restart ==
    /\ May("restart")
    /\ restarts' = restarts + 1
    /\ memory_manager' \in BOOLEAN
    /\ plugin_config' \in Thresholds
    /\ upload_interval' = plugin_config'
    /\ original_prompts' = [s \in Sessions |-> Absent]
    /\ view' = Reopen(disk, view)
    /\ disk' = Reopen(disk, view)
    /\ pc' = "idle"
    /\ h' = NoLocals
    /\ tasks' = [i \in 1..Len(tasks) |->
                    IF Unfinished(tasks[i].st) THEN [tasks[i] EXCEPT !.st = "lost"]
                    ELSE tasks[i]]
    /\ inflight' = {}
    /\ awaiting' = {}
    /\ interrupted' = interrupted \cup
           (IF pc \in {"clear", "clear_commit"} THEN Tids(h.messages_to_upload) ELSE {})
    /\ UNCHANGED <<calls, nreq, ntid, faults, handled, buffer, config, changes, allowed,
                   received, owner, bot_config, effective_config>>

ConfigFields == {"custom_user_id", "memory_injection_enabled",
                 "new_session_upload_enabled"}

\* the operator edits one field of a session in the panel (save_session_config)
SaveSessionConfig(s, field) ==
    /\ Yielded(pc)
    /\ May("config")
    /\ changes' = changes + 1
    /\ config' = [config EXCEPT ![s] =
           CASE field = "custom_user_id" ->
                    [@ EXCEPT !.custom_user_id = IF @ = "" THEN "alice" ELSE ""]
             [] field = "memory_injection_enabled" ->
                    [@ EXCEPT !.memory_injection_enabled = ~@]
             [] field = "new_session_upload_enabled" ->
                    [@ EXCEPT !.new_session_upload_enabled = ~@]]
    /\ UNCHANGED <<memory_manager, upload_interval, original_prompts, disk, view, pc, h,
                   tasks, calls, inflight, nreq, ntid, faults, restarts, handled,
                   buffer, interrupted, allowed, awaiting, received, plugin_config, owner, bot_config, effective_config>>

\* the operator edits upload_interval in the plugin configuration while the
\* plugin runs; line 63 is the only place that reads it
SetUploadInterval(v) ==
    /\ Yielded(pc)
    /\ May("config")
    /\ v # plugin_config
    /\ changes' = changes + 1
    /\ plugin_config' = v
    /\ UNCHANGED <<memory_manager, upload_interval, original_prompts, disk, view, pc, h,
                   tasks, calls, inflight, nreq, ntid, faults, restarts, handled,
                   buffer, interrupted, config, allowed, awaiting, received, owner, bot_config, effective_config>>

(* --------------------------- specifications --------------------------- *)
\* sessions are interchangeable: the first request is taken to come from "s1"
Arriving == IF nreq = 0 THEN {"s1"} ELSE Sessions

Handler ==
    \/ \E s \in Arriving, p \in {Empty, nreq + 1}, m \in {Empty, nreq + 1} :
          InjectMemories(s, p, m)
    \/ \E r \in inflight, ok \in Outcomes : SaveMemoriesBegin(r, ok)
    \/ \E r \in awaiting : \E a \in {Empty, r.id} : SaveMemories(r, a)
    \/ SaveMessageExecute
    \/ SaveMessageCommit
    \/ CountMessages
    \/ SelectBatch
    \/ ClearExecute
    \/ ClearCommit
    \/ SubmitTask
    \/ \E i \in 1..Len(tasks) : TaskStart(i)
    \/ \E i \in 1..Len(tasks) : GatewayReceive(i)
    \/ \E i \in 1..Len(tasks) : TaskFinish(i)

Operator ==
    \/ \E s \in Sessions, f \in ConfigFields : SaveSessionConfig(s, f)
    \/ \E v \in Thresholds : SetUploadInterval(v)

Next == Handler \/ Operator \/ Restart

\* every behaviour of the plugin: failures, restarts, configuration changes
Spec == Init /\ [][Next]_vars

\* one run of the process under the default configuration, nothing fails
InitNominal == InitCommon /\ allowed = {}
SpecNominal == InitNominal /\ [][Handler]_vars

\* restarts at any point, nothing else goes wrong
InitCrash == InitCommon /\ allowed = {"restart"}
SpecCrash == InitCrash /\ [][Handler \/ Restart]_vars

\* the synchronous part of save_memories after its await: line 482 onwards
\* runs without yielding, each sqlite call returns
Synchronous ==
    \/ SaveMessageExecute
    \/ SaveMessageCommit
    \/ CountMessages
    \/ SelectBatch
    \/ ClearExecute
    \/ ClearCommit
    \/ SubmitTask

\* one run of the process, store and gateway failures included.  The event
\* loop runs every ready callback, and a POST ends within its
\* ClientTimeout(total=30) (memory_manager.py line 47): it arrives, is
\* answered, fails or times out.
InitLive == InitCommon /\ allowed = {"fault"}
Fairness ==
    /\ WF_vars(Synchronous)
    /\ \A i \in 1..MaxReq :
          /\ WF_vars(TaskStart(i))
          /\ WF_vars(GatewayReceive(i))
          /\ WF_vars(TaskFinish(i))
SpecLive == InitLive /\ [][Handler]_vars /\ Fairness

\* lines 447-470 of save_memories on their own: the effective configuration
\* of the session is read and the user id of the upload is derived from it
ResolveUserId(s) ==
    /\ Yielded(pc)
    /\ effective_config' =
           [session |-> s, config |-> GetEffectiveConfig(bot_config, config[s])]
    /\ h' = [h EXCEPT !.user_id = UserId(effective_config'.config.custom_user_id, s)]
    /\ UNCHANGED <<memory_manager, upload_interval, original_prompts, disk, view, pc,
                   tasks, calls, inflight, nreq, ntid, faults, restarts, handled, buffer,
                   interrupted, config, changes, allowed, awaiting, received,
                   plugin_config, owner, bot_config>>

\* the configurations an operator can have saved for a bot or a session
BotConfigs ==
    [custom_user_id : {"", "bob"}, memory_injection_enabled : BOOLEAN,
     new_session_upload_enabled : BOOLEAN, api_key_selection : {"default", "key2"}]
SessionConfigs ==
    [custom_user_id : {"", "alice"}, memory_injection_enabled : BOOLEAN,
     new_session_upload_enabled : BOOLEAN, api_key_selection : {"default", "key2"}]

\* get_effective_config and the user id over every saved configuration
InitConfig ==
    /\ InitPlugin
    /\ bot_config \in BotConfigs
    /\ config \in [Sessions -> SessionConfigs]
    /\ allowed = {}
NextConfig == \E s \in Sessions : ResolveUserId(s)
SpecConfig == InitConfig /\ [][NextConfig]_vars

(* ------------------------------- claims ------------------------------- *)
BatchesOf(c) == {i \in 1..Len(tasks) : tasks[i].conv_id = c}
BatchesWith(t) == {i \in 1..Len(tasks) : t \in Tids(tasks[i].msgs)}
LastTask(ts) == ts[Len(ts)]
Increasing(msgs) == \A i, j \in 1..Len(msgs) : i < j => msgs[i].tid < msgs[j].tid
RowsOfBatch(rows, t) ==
    {r \in rows : r.conversation_id = t.conv_id /\ r.tid \in Tids(t.msgs)}

\* C1: under a fixed threshold t with no failure and an empty initial table,
\* once save_memories has returned, the number of batches submitted for a
\* conversation is floor(n / t) for its n accepted complete rounds, and every
\* batch holds 2t turns.
C1_BatchCount ==
    pc = "idle" =>
        \A c \in Convs :
            /\ Cardinality(BatchesOf(c)) = handled[c] \div upload_interval
            /\ \A i \in BatchesOf(c) : Len(tasks[i].msgs) = 2 * upload_interval

C1_Witness ==
    /\ pc = "idle"
    /\ upload_interval = 2
    /\ handled["c1"] = 3
    /\ Cardinality(BatchesOf("c1")) = 1

\* C2: the batch a flush reads is exactly the sequence of turns appended (and
\* committed) for the conversation since its last committed delete, in append
\* order without repetition, and that batch is the one handed to the task.
C2_BatchOrder ==
    [][ /\ (pc = "select" /\ pc' \notin {"select", "idle"}) =>
              /\ h'.messages_to_upload = buffer[h.conversation_id]
              /\ Increasing(h'.messages_to_upload)
        /\ (pc = "submit" /\ Len(tasks') = Len(tasks) + 1) =>
              LastTask(tasks').msgs = h.messages_to_upload ]_vars

C2_Witness ==
    \E i \in 1..Len(tasks) :
        /\ Len(tasks[i].msgs) = 4
        /\ Increasing(tasks[i].msgs)
        /\ tasks[i].msgs[1].role = "user"
        /\ tasks[i].msgs[2].role = "assistant"

\* C3: no turn is part of two batches handed to the dispatcher, whatever
\* store operation fails.
C3_AtMostOnce ==
    \A i, j \in 1..Len(tasks) :
        i # j => Tids(tasks[i].msgs) \cap Tids(tasks[j].msgs) = {}

\* C4: while the gateway call of a batch is running, the table holds no row
\* of the batch.
C4_ClearedBeforeCall ==
    \A i \in 1..Len(tasks) :
        tasks[i].st = "calling" =>
            /\ RowsOfBatch(view, tasks[i]) = {}
            /\ RowsOfBatch(disk, tasks[i]) = {}

\* C5: a turn read by a flush that died between its SELECT and the commit of
\* its DELETE is part of at most one batch handed to the dispatcher.
C5_CrashNoDuplicate ==
    \A t \in interrupted : Cardinality(BatchesWith(t)) <= 1

C5_Witness ==
    /\ restarts = 1
    /\ \E t \in interrupted : Cardinality(BatchesWith(t)) = 1

\* C6: after a restart the table holds, per conversation and in append order,
\* exactly the turns whose append committed and that no committed delete
\* removed; COUNT and the ordered SELECT return them, and a row inserted but
\* not committed when the process died is not there.
C6_Durable ==
    restarts > 0 =>
        /\ \A c \in Convs :
              /\ SelectMessages(disk, c) = buffer[c]
              /\ CountRows(disk, c) = Len(buffer[c])
        /\ pc = "idle" => view = disk

C6_Witness ==
    /\ restarts = 1
    /\ pc = "idle"
    /\ Len(buffer["c1"]) = 1
    /\ CountRows(view, "c1") = 1
    /\ ntid = 3

\* C7: while upload_interval is 1 the table is never written, every round
\* with a non-empty user message and a non-empty response appends exactly
\* one task carrying <<user turn, assistant turn>> within the same
\* invocation, and nothing else appends a task.
RoundCompleted ==
    /\ h'.event # h.event
    /\ ~IsMissing(h'.user_message)
    /\ ~IsMissing(h'.ai_response)

C7_DirectUpload ==
    [][ upload_interval = 1 =>
          /\ view' = view
          /\ disk' = disk
          /\ RoundCompleted =>
                /\ pc' = "idle"
                /\ Len(tasks') = Len(tasks) + 1
                /\ Len(LastTask(tasks').msgs) = 2
                /\ LastTask(tasks').msgs[1].role = "user"
                /\ LastTask(tasks').msgs[1].content = h'.user_message
                /\ LastTask(tasks').msgs[2].role = "assistant"
                /\ LastTask(tasks').msgs[2].content = h'.ai_response
          /\ Len(tasks') # Len(tasks) => RoundCompleted ]_vars

C7_Witness ==
    /\ upload_interval = 1
    /\ restarts = 0
    /\ Len(tasks) = 2
    /\ view = {}

\* C8: with threshold 1 the batch of the bypass path equals the batch the
\* general path (append both turns, read the conversation in order) would
\* upload from the same table.
GeneralPathBatch(rows, c, msgs) ==
    SelectMessages(
        InsertRow(InsertRow(rows, c, msgs[1].role, msgs[1].content, msgs[1].tid),
                  c, msgs[2].role, msgs[2].content, msgs[2].tid), c)

C8_BypassEqualsGeneral ==
    [][ (upload_interval = 1 /\ pc = "idle" /\ Len(tasks') = Len(tasks) + 1) =>
          LastTask(tasks').msgs =
              GeneralPathBatch(view, LastTask(tasks').conv_id, LastTask(tasks').msgs)
      ]_vars

\* C9: a round whose user message (stored prompt, else message_str) or whose
\* response is empty or missing changes neither the table nor the tasks, and
\* no row and no uploaded turn ever has empty content.
NoEmptyContent ==
    /\ \A r \in view \cup disk : ~IsMissing(r.content)
    /\ \A i \in 1..Len(tasks) : \A k \in 1..Len(tasks[i].msgs) :
          ~IsMissing(tasks[i].msgs[k].content)

C9_RoundAtomic ==
    /\ []NoEmptyContent
    /\ [][ \A r \in awaiting \ awaiting' :
             ( /\ restarts' = restarts
               /\ \/ /\ original_prompts[r.session] \in {Absent, Empty}
                     /\ r.message_str = Empty
                  \/ (h'.event = r.id /\ h'.ai_response = Empty) )
             => /\ view' = view
                /\ disk' = disk
                /\ tasks' = tasks
                /\ pc' = "idle" ]_vars

C9_Witness ==
    /\ pc = "idle"
    /\ h.event > 0
    /\ h.ai_response = Empty
    /\ h.user_message > 0
    /\ memory_manager

\* C10: a failing upload ends its task: the task is never called twice, and
\* the failure changes neither the table, nor any other task, nor the
\* handler.
CalledOnce ==
    \A i \in 1..Len(tasks) : Cardinality({k \in 1..Len(calls) : calls[k] = i}) <= 1

C10_FailureDrops ==
    /\ []CalledOnce
    /\ [][ \A i \in 1..Len(tasks) :
             (tasks[i].st = "calling" /\ tasks'[i].st \notin {"calling", "ok", "lost"})
             => /\ tasks'[i].st \in {"warned", "errored"}
                /\ tasks' = [tasks EXCEPT ![i].st = tasks'[i].st]
                /\ calls' = calls
                /\ view' = view
                /\ disk' = disk
                /\ pc' = pc
                /\ h' = h ]_vars

C10_Witness ==
    \E i \in 1..Len(tasks) : tasks[i].st \in {"warned", "errored"}

\* C11: creating the upload task never blocks save_memories: the step that
\* appends a task returns the handler, the new task is only scheduled, and no
\* gateway call is started or received by that step; later rounds are handled
\* while an earlier call is still running.
C11_NonBlocking ==
    [][ Len(tasks') = Len(tasks) + 1 =>
          /\ pc' = "idle"
          /\ LastTask(tasks').st = "scheduled"
          /\ calls' = calls
          /\ received' = received ]_vars

C11_Witness ==
    \E i \in 1..Len(tasks) :
        /\ tasks[i].st = "calling"
        /\ pc = "commit_user"
        /\ h.conversation_id = tasks[i].conv_id

\* C12: no failure leaves save_memories as an exception: the handler is
\* always at one of its statements or has returned, and a failing store
\* statement makes it continue after the failed call or return.
Statements == {"save_user", "commit_user", "save_assistant", "commit_assistant",
               "count", "select", "clear", "clear_commit", "submit"}

C12_NoFailureEscapes ==
    /\ [](pc \in Statements \cup {"idle"})
    /\ [][ (faults' > faults /\ pc # "idle") =>
             pc' \in (IF pc \in {"count", "select"} THEN {"idle"}
                      ELSE {AfterCall(pc)}) ]_vars

C12_Witness ==
    /\ faults = 1
    /\ pc = "idle"
    /\ upload_interval = 2
    /\ CountRows(view, "c1") = 4
    /\ tasks = <<>>

\* C13: _save_message_to_db returns to its caller in one of two ways: the
\* table has exactly one more committed row, numbered max + 1 (0 for an empty
\* conversation) and carrying the turn, or a statement failed and both the
\* committed rows and the connection's view are what they were at the call.
AppendPositions == {"save_user", "commit_user", "save_assistant", "commit_assistant"}

C13_AppendAllOrNothing ==
    [][ (pc \in AppendPositions /\ restarts' = restarts) =>
          \/ /\ pc \in {"save_user", "save_assistant"}
             /\ pc' = FlowNext(pc)
             /\ faults' = faults
             /\ disk' = disk
          \/ /\ pc \in {"commit_user", "commit_assistant"}
             /\ pc' = AfterCall(pc)
             /\ faults' = faults
             /\ disk' = InsertRow(disk, h.conversation_id, TurnAt(pc).role,
                                  TurnAt(pc).content, TurnAt(pc).tid)
             /\ Cardinality(disk') = Cardinality(disk) + 1
             /\ view' = disk'
          \/ /\ pc' = AfterCall(pc)
             /\ faults' > faults
             /\ disk' = disk
             /\ view' = disk ]_vars

C13_Witness ==
    /\ pc = "save_assistant"
    /\ faults = 1
    /\ view = {}
    /\ disk = {}

\* C14: in every state the message_ids of a conversation's rows are exactly
\* 0..k-1 for its k rows, in the connection's view and on disk, and every
\* inserted row has a message_id above all the rows the conversation had.
SeqNumbers(rows, c) == {r.message_id : r \in ConvRows(rows, c)}
Gapless(rows) == \A c \in Convs : SeqNumbers(rows, c) = 0..(CountRows(rows, c) - 1)

C14_Gapless ==
    /\ [](Gapless(view) /\ Gapless(disk))
    /\ [][ \A r \in view' \ view :
             \A q \in ConvRows(view, r.conversation_id) :
                 r.message_id > q.message_id ]_vars

C14_Witness ==
    \E c \in Convs : SeqNumbers(view, c) = 0..3

\* C15: while one save_memories is between its first append and its return,
\* no other invocation starts or resumes, so the rows of a round are adjacent:
\* the assistant row of a round is numbered one above its user row.
RoundsAdjacent(rows) ==
    \A r, q \in rows :
        (r.conversation_id = q.conversation_id /\ r.role = "user" /\ q.tid = r.tid + 1)
        => q.message_id = r.message_id + 1

C15_NoInterleaving ==
    /\ [](RoundsAdjacent(view))
    /\ [][ (pc # "idle" /\ restarts' = restarts) =>
             /\ awaiting' = awaiting
             /\ inflight' = inflight
             /\ h'.event = h.event ]_vars

C15_Witness ==
    /\ pc = "commit_assistant"
    /\ \E a \in awaiting : ConvOf(a.session) = h.conversation_id
    /\ \E r, q \in view : r.role = "user" /\ q.tid = r.tid + 1

\* C16: for two batches of one conversation, every turn that only the batch
\* received later by the gateway carries was created after every turn of the
\* batch received earlier.
C16_UploadOrder ==
    \A a, b \in 1..Len(received) :
        (a < b /\ tasks[received[a]].conv_id = tasks[received[b]].conv_id) =>
            \A y \in Tids(tasks[received[a]].msgs) :
                \A x \in Tids(tasks[received[b]].msgs) \ Tids(tasks[received[a]].msgs) :
                    y < x

\* C17: every upload decision uses the threshold configured at that moment:
\* the flush test of a counted round and the choice of the direct upload
\* follow self.config, whatever it was when the plugin was constructed.
C17_ThresholdReread ==
    [][ /\ (pc = "count" /\ faults' = faults /\ restarts' = restarts) =>
              (pc' = FlowNext(pc) <=>
                  ReachedThreshold(CountRows(view, h.conversation_id), plugin_config))
        /\ (\E r \in awaiting \ awaiting' :
               /\ h'.event = r.id
               /\ ~IsMissing(h'.user_message)
               /\ ~IsMissing(h'.ai_response)) =>
              (Len(tasks') = Len(tasks) + 1 <=> DirectUpload(plugin_config)) ]_vars

\* C18: when no save_memories is running every conversation holds fewer
\* buffered rounds than the threshold; a counted round that does not flush
\* leaves its two rows in the table and a flush leaves the conversation empty.
C18_TwoStates ==
    /\ [](pc = "idle" =>
            \A c \in Convs : CountRows(view, c) \div 2 < upload_interval)
    /\ [][ /\ (pc = "count" /\ pc' = "idle" /\ restarts' = restarts) =>
                Cardinality({r \in ConvRows(view', h.conversation_id) :
                                r.tid \in {h.tid, h.tid + 1}}) = 2
           /\ (pc = "submit" /\ restarts' = restarts) =>
                CountRows(view', h.conversation_id) = 0 ]_vars

\* C19: no task ever carries an empty batch; for a conversation without rows
\* the ordered SELECT is empty, the DELETE leaves the table as it is and the
\* flush test on its count is negative.
C19_EmptyDrain ==
    /\ \A i \in 1..Len(tasks) : tasks[i].msgs # <<>>
    /\ \A c \in Convs :
          ConvRows(view, c) = {} =>
              /\ SelectMessages(view, c) = <<>>
              /\ DeleteRows(view, c) = view
              /\ ~ReachedThreshold(CountRows(view, c), upload_interval)

C19_Witness ==
    /\ ConvRows(view, "c2") = {}
    /\ ConvRows(view, "c1") # {}
    /\ \E i \in 1..Len(tasks) : tasks[i].conv_id = "c2" /\ Len(tasks[i].msgs) = 4

\* C20: an exception out of add_message ends in the task that made the call:
\* a task is never left with an unhandled exception, and the step in which a
\* call raises changes neither the table nor any other task.
TaskStates == {"scheduled", "calling", "ok", "warned", "errored", "lost"}

C20_TaskContained ==
    /\ [](\A i \in 1..Len(tasks) : tasks[i].st \in TaskStates)
    /\ [][ \A i \in 1..Len(tasks) :
             (tasks[i].st = "calling" /\ tasks'[i].st = "errored") =>
                 /\ Len(tasks') = Len(tasks)
                 /\ \A j \in 1..Len(tasks) : j # i => tasks'[j] = tasks[j]
                 /\ view' = view
                 /\ disk' = disk ]_vars

C20_Witness ==
    \E i, j \in 1..Len(tasks) :
        /\ tasks[i].st = "errored"
        /\ tasks[j].conv_id # tasks[i].conv_id
        /\ tasks[j].st = "calling"

\* C22: the user turn of a round is the prompt (or message) of the request
\* whose response completes the round: the user message save_memories
\* resolved for an event is the text of that same event.
C22_OwnPrompt ==
    (h.event > 0 /\ ~IsMissing(h.user_message) /\ ~IsMissing(h.ai_response)) =>
        h.user_message = h.event

\* C23: when no save_memories is running the rows of every conversation are
\* whole rounds: an even number of rows that alternate user, assistant in
\* message_id order, starting with user.
Alternating(msgs) ==
    \A k \in 1..Len(msgs) :
        msgs[k].role = (IF k % 2 = 1 THEN "user" ELSE "assistant")

C23_WholeRounds ==
    pc = "idle" =>
        \A c \in Convs :
            /\ CountRows(view, c) % 2 = 0
            /\ Alternating(SelectMessages(view, c))

\* C24: when no store operation has failed, a turn still in the table after
\* save_memories accepted a complete round of its conversation has fewer
\* than upload_interval complete rounds of that conversation after it, or has
\* been handed to a task; turns left by an earlier run are included.
RoundOf(tid) == (tid + 1) \div 2
Handed(tid) == \E i \in 1..Len(tasks) : tid \in Tids(tasks[i].msgs)
TurnsOf(c) ==
    {r.tid : r \in ConvRows(disk, c)} \cup
    UNION {Tids(tasks[i].msgs) : i \in BatchesOf(c)}
RoundsAfter(c, tid) == {RoundOf(x) : x \in {y \in TurnsOf(c) : RoundOf(y) > RoundOf(tid)}}
JustAccepted(c) ==
    /\ pc = "idle"
    /\ h.event > 0
    /\ ~IsMissing(h.user_message)
    /\ ~IsMissing(h.ai_response)
    /\ \E x \in TurnsOf(c) : RoundOf(x) = RoundOf(ntid - 1)

C24_EventuallyHanded ==
    \A c \in Convs :
        (faults = 0 /\ JustAccepted(c)) =>
            \A r \in ConvRows(disk, c) :
                \/ Handed(r.tid)
                \/ Cardinality(RoundsAfter(c, r.tid)) < upload_interval

\* C25: the statements save_memories runs for one conversation leave the rows
\* of every other conversation as they are, the batch it reads holds only
\* turns stored for its conversation, and the task is created for that
\* conversation with that batch.
RowsElsewhere(rows, c) == {r \in rows : r.conversation_id # c}
StoredFor(rows, c) == {r.tid : r \in {q \in rows : q.conversation_id = c}}

C25_Isolation ==
    [][ (pc # "idle" /\ restarts' = restarts) =>
          /\ RowsElsewhere(view', h.conversation_id) = RowsElsewhere(view, h.conversation_id)
          /\ RowsElsewhere(disk', h.conversation_id) = RowsElsewhere(disk, h.conversation_id)
          /\ (pc = "select" /\ pc' # "idle") =>
                Tids(h'.messages_to_upload) \subseteq StoredFor(view, h.conversation_id)
          /\ pc = "submit" =>
                /\ LastTask(tasks').conv_id = h.conversation_id
                /\ LastTask(tasks').msgs = h.messages_to_upload ]_vars

C25_Witness ==
    /\ ConvRows(view, "c2") # {}
    /\ \E i \in 1..Len(tasks) : tasks[i].conv_id = "c1" /\ Len(tasks[i].msgs) = 4

\* C26: a save_memories invocation that finds no memory manager, or the
\* upload switch of the session's effective configuration off, ends at once:
\* it changes neither the table nor the tasks and is not left suspended.
C26_UploadDisabled ==
    [][ \A r \in inflight \ inflight' :
          ( /\ restarts' = restarts
            /\ \/ ~memory_manager
               \/ /\ faults' = faults
                  /\ ~GetEffectiveConfig(bot_config, config[r.session])
                         .new_session_upload_enabled )
          => /\ view' = view
             /\ disk' = disk
             /\ tasks' = tasks
             /\ awaiting' = awaiting
             /\ pc' = "idle" ]_vars

C26_Witness ==
    /\ pc = "idle"
    /\ memory_manager
    /\ h.event > 0
    /\ h = [NoLocals EXCEPT !.event = h.event]
    /\ ~config["s1"].new_session_upload_enabled
    /\ awaiting = {}
    /\ CountRows(view, "c1") = 2
    /\ tasks = <<>>

\* C27: every turn of a task is uploaded under the user id that was in force
\* for its session when the round of the turn was accepted.
C27_UserIdPerTurn ==
    \A i \in 1..Len(tasks) :
        \A k \in 1..Len(tasks[i].msgs) :
            owner[tasks[i].msgs[k].tid] = tasks[i].user_id

\* C28: when the count cannot be read the invocation ends without a flush:
\* the step changes neither the table nor the tasks and save_memories
\* returns; the rows stay and a later round flushes them.
C28_CountFailure ==
    [][ (pc = "count" /\ faults' > faults) =>
          /\ pc' = "idle"
          /\ h'.message_count = 0
          /\ view' = view
          /\ disk' = disk
          /\ tasks' = tasks ]_vars

C28_Witness ==
    /\ pc = "idle"
    /\ faults = 1
    /\ upload_interval = 2
    /\ h.event = 2
    /\ h.message_count = 0
    /\ CountRows(view, "c1") = 4
    /\ tasks = <<>>

\* C29: get_effective_config takes the two switches and the API key
\* selection from the session, and the custom user id from the session when
\* it is non-empty, else from the bot; the user id of the upload is that
\* custom user id when non-empty, else the session's unified_msg_origin.
C29_EffectiveConfig ==
    effective_config.session # "" =>
        LET bot     == bot_config
            session == config[effective_config.session]
            eff     == effective_config.config
        IN  /\ eff.memory_injection_enabled = session.memory_injection_enabled
            /\ eff.new_session_upload_enabled = session.new_session_upload_enabled
            /\ eff.api_key_selection = session.api_key_selection
            /\ session.custom_user_id # "" => eff.custom_user_id = session.custom_user_id
            /\ session.custom_user_id = "" => eff.custom_user_id = bot.custom_user_id
            /\ eff.custom_user_id # "" => h.user_id = eff.custom_user_id
            /\ eff.custom_user_id = "" => h.user_id = effective_config.session

C29_Witness ==
    /\ effective_config.session = "s2"
    /\ bot_config.custom_user_id = "bob"
    /\ bot_config.api_key_selection = "default"
    /\ config["s2"].custom_user_id = ""
    /\ effective_config.config.api_key_selection = "key2"
    /\ h.user_id = "bob"

Logged(st) == st \in {"ok", "warned", "errored"}
Submitted(i) == i <= Len(tasks)

\* C21: every submitted upload task ends, with the success logged ("ok") or
\* the failure logged ("warned", "errored") and with nothing else; its
\* outcome never changes afterwards; and the first created task that has not
\* run yet can start whenever the handler has yielded, whatever the other
\* tasks are doing, as a running call can end whatever the others are doing.
C21_Terminates ==
    /\ \A i \in 1..MaxReq : Submitted(i) ~> (Submitted(i) /\ Logged(tasks[i].st))
    /\ [](\A i \in 1..Len(tasks) : Unfinished(tasks[i].st) \/ Logged(tasks[i].st))
    /\ [][\A i \in 1..Len(tasks) : Logged(tasks[i].st) => tasks'[i] = tasks[i]]_vars
    /\ [](\A i \in 1..Len(tasks) :
            (/\ Yielded(pc)
             /\ tasks[i].st = "scheduled"
             /\ \A j \in 1..(i - 1) : tasks[j].st # "scheduled") => ENABLED TaskStart(i))

C21_Witness ==
    /\ Len(tasks) = 2
    /\ tasks[1].st = "warned"
    /\ tasks[2].st = "ok"
    /\ calls = <<1, 2>>
    /\ received = <<2, 1>>

=============================================================================
